---- MODULE Spec2Model ----
(***************************************************************************)
(* Model of sanguine/common.py (TmpPath, path normalisation) and           *)
(* sanguine/folders.py (configuration path resolution, Folders).           *)
(*                                                                         *)
(* A Python string is a sequence of symbols.  A symbol is one separator,   *)
(* one drive, one path word or one placeholder token; lower() and          *)
(* replace() act symbol by symbol.                                         *)
(***************************************************************************)
EXTENDS Naturals, Sequences, FiniteSets, TLC

VARIABLES
    basetmpdir,   \* argument of TmpPath.__init__
    tmpdir,       \* TmpPath.tmpdir
    dirs,         \* file system: the directories that exist
    locked,       \* file system: directories an external process holds open
    full,         \* file system: directories that hold files
    st,           \* lifecycle of the TmpPath object
    pc,           \* position of the program
    i,            \* loop variable of __enter__
    ok,           \* local ok of __enter__
    nretries,     \* local nretries of rm_tmp_tree
    rmpath,       \* argument tmppath of rm_tmp_tree
    rmfrom,       \* who called rm_tmp_tree: "exit" or "direct"
    exc_val,      \* the failure the with-body ended with ("none" if it ended normally)
    raised,       \* the failure the last call let out to its caller
    ret,          \* value returned by the last tmp_dir() / tmp_in_tmp()
    handed,       \* path of the object returned by the last __enter__
    lastrm,       \* argument of the last shutil.rmtree call
    outcomes,     \* results of the rmtree calls of the current rm_tmp_tree
    gaveup,       \* rm_tmp_tree logged 'Will not retry'
    rmres,        \* how the last rm_tmp_tree call ended, while its result stands
    rmDirs,       \* dirs when the last rm_tmp_tree call started
    enterDirs,    \* dirs when the current __enter__ started
    enterLocked,  \* locked when the current __enter__ started
    enterTmp,     \* tmpdir when the current __enter__ started
    primRemoved,  \* the rmtree of enterTmp in the current __enter__ succeeded
    ncalls,       \* number of __enter__ calls so far
    nops,         \* number of calls the current with-body has made
    arg_path,         \* _config_dir_path: argument path
    configdir,        \* _config_dir_path: argument configdir
    config,           \* _config_dir_path: argument config
    resolved,         \* _config_dir_path: how the call ended
    jsonconfigfname,  \* Folders.__init__: argument jsonconfigfname
    jsonconfig,       \* Folders.__init__: argument jsonconfig
    folders,          \* the Folders object
    mo2gen,           \* the generator all_mo2_own_mod_dirs()
    gitgen,           \* the generator all_git_own_mod_dirs()
    norm              \* a path, and the results of normalizing it once and twice

tmpvars == <<basetmpdir, tmpdir, dirs, locked, full, st, pc, i, ok, nretries,
             rmpath, rmfrom, exc_val, raised, ret, handed, lastrm, outcomes,
             gaveup, rmres, rmDirs, enterDirs, enterLocked, enterTmp, primRemoved, ncalls, nops>>

cfgvars == <<arg_path, configdir, config, resolved, jsonconfigfname, jsonconfig,
             folders, mo2gen, gitgen, norm>>

vars == <<tmpvars, cfgvars>>

-----------------------------------------------------------------------------
(* Bounds of the model *)

\* at most this many reserve slots are absent or removable in the initial file system
MaxOpen == 2
\* at most this many __enter__ calls on the one object
MaxAcquires == 2
\* at most this many calls in one with-body
MaxBodyOps == 2

-----------------------------------------------------------------------------
(* Strings *)

SEP == "\\"

EndsWith(s, t) ==
    /\ Len(s) >= Len(t)
    /\ SubSeq(s, Len(s) - Len(t) + 1, Len(s)) = t

StartsWith(s, t) ==
    /\ Len(s) >= Len(t)
    /\ SubSeq(s, 1, Len(t)) = t

\* t in s
Contains(s, t) ==
    \E k \in 1..(Len(s) + 1) :
        /\ k + Len(t) - 1 <= Len(s)
        /\ SubSeq(s, k, k + Len(t) - 1) = t

NoPath == <<>>

-----------------------------------------------------------------------------
(* class TmpPath *)

ADDED_FOLDER == "JBSLtet9"
MAX_RMTREE_RETRIES == 3
MAX_RESERVE_FOLDERS == 10

\* '\\' + TmpPath.ADDED_FOLDER + '\\' in path
HasMarker(path) == Contains(path, <<SEP, ADDED_FOLDER, SEP>>)

(* The file system *)

Subtree(d, ds) == {q \in ds : StartsWith(q, d)}

Children(d, ds) ==
    {q \in Subtree(d, ds) :
        /\ q # d
        /\ ~ \E r \in Subtree(d, ds) : r # d /\ r # q /\ StartsWith(q, r)}

\* every prefix of p that names a directory: os.makedirs creates the missing ones
Ancestors(p) == {SubSeq(p, 1, k) : k \in {n \in 1..Len(p) : p[n] = SEP}}

\* shutil.rmtree(d): what it can do to the file system.  It removes the whole
\* tree when nothing in it is locked.  Otherwise it raises, after removing any
\* of the lock-free subdirectories it came to first.  It raises on a path that
\* is no directory.
RmOutcomes(d) ==
    IF d \notin dirs
    THEN {[raised |-> TRUE, dirs |-> dirs]}
    ELSE IF Subtree(d, dirs) \cap locked = {}
    THEN {[raised |-> FALSE, dirs |-> dirs \ Subtree(d, dirs)]}
    ELSE {[raised |-> TRUE,
           dirs |-> dirs \ UNION {Subtree(c, dirs) : c \in C}] :
             C \in SUBSET {c \in Children(d, dirs) :
                              Subtree(c, dirs) \cap locked = {}}}

\* the file system after an rmtree with outcome o
FsAfter(o) ==
    /\ dirs' = o.dirs
    /\ locked' = locked \cap o.dirs
    /\ full' = full \cap o.dirs

FsUnchanged == UNCHANGED <<dirs, locked, full>>

\* self.tmpdir = basetmpdir + TmpPath.ADDED_FOLDER + '\\'
Primary(b) == b \o <<ADDED_FOLDER, SEP>>

(* Initial file system *)

BaseDirs == { <<"c:", SEP, "tmp", SEP>>, <<"c:", SEP, "tmp">> }

OutsideDir == <<"c:", SEP, "tmp", SEP, "data", SEP>>

Outside == { <<"c:", SEP>>, <<"c:", SEP, "tmp", SEP>>, OutsideDir }

Slots == 0..(MAX_RESERVE_FOLDERS - 1)

\* the slot beside the primary directory: its name is the marker, '_' and k
ReserveFolder_Sibling(dir, k) == SubSeq(dir, 1, Len(dir) - 1) \o <<"_", ToString(k), SEP>>

ReserveFolder(dir, k) == dir \o <<"_", ToString(k), SEP>>

\* the reserve slots that are exceptions to the rule of a stale state: some
\* absent, some present and removable
OpenChoices ==
    UNION { {[absent |-> A, free |-> O \ A] : A \in SUBSET O} :
              O \in {X \in SUBSET Slots : Cardinality(X) <= MaxOpen} }

\* the stale directories a crashed earlier run can have left under primary p:
\* nothing, or p itself (locked or not) with reserve slots inside it.  The
\* slots are all locked or all absent, except for at most MaxOpen of them
StaleStates(p) ==
    {[dirs |-> {}, locked |-> {}]}
    \cup
    { [dirs   |-> {p} \cup {ReserveFolder(p, k) : k \in Slots \ c.absent},
       locked |-> (IF pl THEN {p} ELSE {})
                  \cup {ReserveFolder(p, k) : k \in Slots \ (c.absent \cup c.free)}] :
        pl \in BOOLEAN, c \in OpenChoices }
    \cup
    { [dirs   |-> {p} \cup {ReserveFolder(p, k) : k \in c.free},
       locked |-> IF pl THEN {p} ELSE {}] :
        pl \in BOOLEAN, c \in OpenChoices }

\* a few stale states for the runs that look at the with-body
UseStaleStates(p) ==
    { [dirs |-> {}, locked |-> {}],
      [dirs |-> {p}, locked |-> {}],
      [dirs |-> {p}, locked |-> {p}],
      [dirs |-> {p, ReserveFolder(p, 0), ReserveFolder(p, 1)},
       locked |-> {p, ReserveFolder(p, 0)}],
      [dirs |-> {p} \cup {ReserveFolder(p, k) : k \in Slots},
       locked |-> {p} \cup {ReserveFolder(p, k) : k \in Slots}] }

TmpInit(stale) ==
    /\ basetmpdir \in BaseDirs
    /\ \E s \in stale :
          /\ dirs = Outside \cup s.dirs
          /\ locked = s.locked
          /\ full = s.dirs \cup {OutsideDir}
    /\ tmpdir = NoPath
    /\ st = "NoObject"
    /\ pc = "new"
    /\ i = 0
    /\ ok = FALSE
    /\ nretries = 0
    /\ rmpath = NoPath
    /\ rmfrom = "none"
    /\ exc_val = "none"
    /\ raised = "none"
    /\ ret = NoPath
    /\ handed = NoPath
    /\ lastrm = NoPath
    /\ outcomes = <<>>
    /\ gaveup = FALSE
    /\ rmres = "none"
    /\ rmDirs = {}
    /\ enterDirs = {}
    /\ enterLocked = {}
    /\ enterTmp = NoPath
    /\ primRemoved = FALSE
    /\ ncalls = 0
    /\ nops = 0

-----------------------------------------------------------------------------
(* TmpPath.__init__ *)

\* assert basetmpdir.endswith('\\')
InitAssert(b) == EndsWith(b, <<SEP>>)

Construct ==
    /\ pc = "new"
    /\ IF InitAssert(basetmpdir)
       THEN /\ tmpdir' = Primary(basetmpdir)
            /\ st' = "Unacquired"
            /\ pc' = "idle"
            /\ UNCHANGED raised
       ELSE /\ raised' = "AssertionError"
            /\ pc' = "dead"
            /\ UNCHANGED <<tmpdir, st>>
    /\ FsUnchanged
    /\ UNCHANGED <<cfgvars, basetmpdir, i, ok, nretries, rmpath, rmfrom, exc_val, ret,
                   handed, lastrm, outcomes, gaveup, rmres, rmDirs, enterDirs,
                   enterLocked,
                   enterTmp, primRemoved, ncalls, nops>>

-----------------------------------------------------------------------------
(* TmpPath.__enter__ *)

\* the first lines of __enter__: isdir(self.tmpdir), rmtree(self.tmpdir)
EnterStart ==
    /\ pc = "idle"
    /\ st \in {"Unacquired", "Released", "FailedAcquire"}
    /\ ncalls < MaxAcquires
    /\ ncalls' = ncalls + 1
    /\ st' = "Acquiring"
    /\ enterDirs' = dirs
    /\ enterLocked' = locked
    /\ enterTmp' = tmpdir
    \* what the previous call left behind is out of scope now
    /\ raised' = "none"
    /\ exc_val' = "none"
    /\ ret' = NoPath
    /\ handed' = NoPath
    /\ outcomes' = <<>>
    /\ gaveup' = FALSE
    /\ rmres' = "none"
    /\ rmDirs' = {}
    /\ rmpath' = NoPath
    /\ rmfrom' = "none"
    /\ nretries' = 0
    /\ nops' = 0
    /\ IF tmpdir \in dirs
       THEN \E o \in RmOutcomes(tmpdir) :
              /\ FsAfter(o)
              /\ lastrm' = tmpdir
              /\ primRemoved' = ~o.raised
              /\ ok' = FALSE
              /\ i' = 0
              /\ pc' = IF o.raised THEN "reserve" ELSE "makedirs"
       ELSE /\ pc' = "makedirs"
            /\ primRemoved' = FALSE
            /\ lastrm' = NoPath
            /\ ok' = FALSE
            /\ i' = 0
            /\ FsUnchanged
    /\ UNCHANGED <<cfgvars, basetmpdir, tmpdir>>

\* one iteration of 'for i in range(self.MAX_RESERVE_FOLDERS)'
ReserveStep ==
    /\ pc = "reserve"
    /\ ~ok
    /\ i < MAX_RESERVE_FOLDERS
    /\ LET reservefolder == ReserveFolder(tmpdir, i) IN
         IF reservefolder \notin dirs
         THEN /\ tmpdir' = reservefolder
              /\ ok' = TRUE
              /\ FsUnchanged
              /\ UNCHANGED <<i, lastrm>>
         ELSE \E o \in RmOutcomes(reservefolder) :
                /\ FsAfter(o)
                /\ lastrm' = reservefolder
                /\ IF o.raised
                   THEN /\ i' = i + 1
                        /\ UNCHANGED <<tmpdir, ok>>
                   ELSE /\ tmpdir' = reservefolder
                        /\ ok' = TRUE
                        /\ UNCHANGED i
    /\ UNCHANGED <<cfgvars, basetmpdir, st, pc, nretries, rmpath, rmfrom, exc_val, raised,
                   ret, handed, outcomes, gaveup, rmres, rmDirs, enterDirs,
                   enterLocked,
                   enterTmp, primRemoved, ncalls, nops>>

AbortIfNotOk_Proceed ==
    /\ pc = "reserve"
    /\ ok \/ i = MAX_RESERVE_FOLDERS
    /\ pc' = "makedirs"
    /\ FsUnchanged
    /\ UNCHANGED <<cfgvars, basetmpdir, tmpdir, st, i, ok, nretries, rmpath, rmfrom, exc_val,
                   raised, ret, handed, lastrm, outcomes, gaveup, rmres, rmDirs,
                   enterDirs, enterLocked, enterTmp, primRemoved, ncalls, nops>>

\* abort_if_not(ok) after the loop
AbortIfNotOk ==
    /\ pc = "reserve"
    /\ ok \/ i = MAX_RESERVE_FOLDERS
    /\ IF ok
       THEN /\ pc' = "makedirs"
            /\ UNCHANGED <<raised, st>>
       ELSE /\ raised' = "SanguinicError"
            /\ st' = "FailedAcquire"
            /\ pc' = "idle"
    /\ FsUnchanged
    /\ UNCHANGED <<cfgvars, basetmpdir, tmpdir, i, ok, nretries, rmpath, rmfrom, exc_val,
                   ret, handed, lastrm, outcomes, gaveup, rmres, rmDirs, enterDirs,
                   enterLocked,
                   enterTmp, primRemoved, ncalls, nops>>

MakeDirs_NoCreate ==
    /\ pc = "makedirs"
    /\ handed' = tmpdir
    /\ st' = "Active"
    /\ pc' = "body"
    /\ nops' = 0
    /\ FsUnchanged
    /\ UNCHANGED <<cfgvars, basetmpdir, tmpdir, i, ok, nretries, rmpath, rmfrom, exc_val,
                   raised, ret, lastrm, outcomes, gaveup, rmres, rmDirs, enterDirs,
                   enterLocked, enterTmp, primRemoved, ncalls>>

\* os.makedirs(self.tmpdir); return self
MakeDirs ==
    /\ pc = "makedirs"
    /\ IF tmpdir \in dirs
       THEN /\ raised' = "FileExistsError"
            /\ st' = "FailedAcquire"
            /\ pc' = "idle"
            /\ FsUnchanged
            /\ UNCHANGED <<handed, nops>>
       ELSE /\ dirs' = dirs \cup Ancestors(tmpdir)
            /\ handed' = tmpdir
            /\ st' = "Active"
            /\ pc' = "body"
            /\ nops' = 0
            /\ UNCHANGED <<raised, locked, full>>
    /\ UNCHANGED <<cfgvars, basetmpdir, tmpdir, i, ok, nretries, rmpath, rmfrom, exc_val,
                   ret, lastrm, outcomes, gaveup, rmres, rmDirs, enterDirs,
                   enterLocked,
                   enterTmp, primRemoved, ncalls>>

-----------------------------------------------------------------------------
(* The with-body: the caller's use of the workspace *)

\* the with statement calls __exit__(exc_type, exc_val, exc_tb), whose first
\* line calls TmpPath.rm_tmp_tree(self.tmpdir)
CallExit(e) ==
    /\ exc_val' = e
    /\ st' = "Releasing"
    /\ rmpath' = tmpdir
    /\ rmfrom' = "exit"
    /\ rmres' = "called"
    /\ pc' = "rm_entry"
    \* the body's own values are out of scope now
    /\ ret' = NoPath
    /\ nops' = 0

\* TmpPath.tmp_dir
TmpDir ==
    /\ pc = "body"
    /\ nops < MaxBodyOps
    /\ nops' = nops + 1
    /\ ret' = tmpdir
    /\ FsUnchanged
    /\ UNCHANGED <<cfgvars, basetmpdir, tmpdir, st, pc, i, ok, nretries, rmpath, rmfrom,
                   exc_val, raised, handed, lastrm, outcomes, gaveup, rmres,
                   rmDirs, enterDirs, enterLocked, enterTmp, primRemoved, ncalls>>

\* the two asserts of tmp_in_tmp
TmpInTmpAssert(tmpbase) == EndsWith(tmpbase, <<SEP>>) /\ HasMarker(tmpbase)

\* the paths a caller may pass as tmpbase
TmpBases ==
    {tmpdir, OutsideDir, SubSeq(tmpdir, 1, Len(tmpdir) - 1)}
    \cup (IF ret = NoPath THEN {} ELSE {ret})

\* TmpPath.tmp_in_tmp
TmpInTmp(tmpbase, prefix, num) ==
    /\ pc = "body"
    /\ nops < MaxBodyOps
    /\ nops' = nops + 1
    /\ IF TmpInTmpAssert(tmpbase)
       THEN /\ ret' = tmpbase \o <<prefix, ToString(num), SEP>>
            /\ UNCHANGED <<pc, exc_val>>
       ELSE /\ exc_val' = "AssertionError"
            /\ pc' = "body_raise"
            /\ UNCHANGED ret
    /\ FsUnchanged
    /\ UNCHANGED <<cfgvars, basetmpdir, tmpdir, st, i, ok, nretries, rmpath, rmfrom,
                   raised, handed, lastrm, outcomes, gaveup, rmres, rmDirs,
                   enterDirs, enterLocked, enterTmp, primRemoved, ncalls>>

\* the body works in the workspace: it writes files, may create the
\* sub-workspace it derived, and an external process (the indexing service of
\* the comment in rm_tmp_tree) may take a lock on what was written
BodyWork ==
    /\ pc = "body"
    /\ nops < MaxBodyOps
    /\ nops' = nops + 1
    /\ \E mk \in BOOLEAN, lk \in BOOLEAN :
         LET sub == IF mk /\ ret # NoPath /\ ret # tmpdir /\ StartsWith(ret, tmpdir)
                    THEN {ret} ELSE {}
         IN  /\ tmpdir \in dirs
             /\ dirs' = dirs \cup sub
             /\ full' = full \cup {tmpdir} \cup sub
             /\ locked' = IF lk THEN locked \cup {tmpdir} ELSE locked
    \* what a returned rm_tmp_tree call left behind is no longer the state
    \* of the file system once the body writes again
    /\ rmres' = IF rmres = "returned" THEN "none" ELSE rmres
    /\ UNCHANGED <<cfgvars, basetmpdir, tmpdir, st, pc, i, ok, nretries, rmpath, rmfrom,
                   exc_val, raised, ret, handed, lastrm, outcomes, gaveup,
                   rmDirs, enterDirs, enterLocked, enterTmp, primRemoved, ncalls>>

\* the body calls the static TmpPath.rm_tmp_tree(path) itself
RmDirect(path) ==
    /\ pc = "body"
    /\ nops < MaxBodyOps
    /\ nops' = nops + 1
    /\ rmpath' = path
    /\ rmfrom' = "direct"
    /\ rmres' = "called"
    /\ pc' = "rm_entry"
    /\ FsUnchanged
    /\ UNCHANGED <<cfgvars, basetmpdir, tmpdir, st, i, ok, nretries, exc_val, raised, ret,
                   handed, lastrm, outcomes, gaveup, rmDirs, enterDirs,
                   enterLocked, enterTmp, primRemoved, ncalls>>

\* a failure raised inside the body leaves the with statement
BodyRaise ==
    /\ pc = "body_raise"
    /\ CallExit(exc_val)
    /\ FsUnchanged
    /\ UNCHANGED <<cfgvars, basetmpdir, tmpdir, i, ok, nretries, raised, handed,
                   lastrm, outcomes, gaveup, rmDirs, enterDirs,
                   enterLocked, enterTmp, primRemoved, ncalls>>

\* the body ends, normally (e = "none") or with a failure of its own
Exit(e) ==
    /\ pc = "body"
    /\ CallExit(e)
    /\ FsUnchanged
    /\ UNCHANGED <<cfgvars, basetmpdir, tmpdir, i, ok, nretries, raised, handed,
                   lastrm, outcomes, gaveup, rmDirs, enterDirs,
                   enterLocked, enterTmp, primRemoved, ncalls>>

-----------------------------------------------------------------------------
(* TmpPath.rm_tmp_tree *)

RmAssert_None(tmppath) == TRUE

\* assert '\\' + TmpPath.ADDED_FOLDER + '\\' in tmppath
RmAssert(tmppath) == HasMarker(tmppath)

GiveUp_OffByOne(n) == n < 0

\* if nretries <= 0: warn 'Will not retry', return
GiveUp(n) == n <= 0

\* the assert and 'nretries = TmpPath.MAX_RMTREE_RETRIES'
RmEntry ==
    /\ pc = "rm_entry"
    /\ outcomes' = <<>>
    /\ gaveup' = FALSE
    /\ rmDirs' = dirs
    /\ IF RmAssert(rmpath)
       THEN /\ nretries' = MAX_RMTREE_RETRIES
            /\ rmres' = "running"
            /\ pc' = "rm_try"
            /\ UNCHANGED <<exc_val, raised, st>>
       ELSE /\ rmres' = "AssertionError"
            /\ UNCHANGED nretries
            /\ IF rmfrom = "exit"
               THEN /\ raised' = "AssertionError"
                    /\ st' = "Released"
                    /\ pc' = "idle"
                    /\ UNCHANGED exc_val
               ELSE /\ exc_val' = "AssertionError"
                    /\ pc' = "body_raise"
                    /\ UNCHANGED <<raised, st>>
    /\ FsUnchanged
    /\ UNCHANGED <<cfgvars, basetmpdir, tmpdir, i, ok, rmpath, rmfrom, ret, handed, lastrm,
                   enterDirs, enterLocked, enterTmp, primRemoved, ncalls, nops>>

\* where rm_tmp_tree returns to
RmReturn == IF rmfrom = "exit" THEN "exit_raise" ELSE "body"

\* one turn of 'while True': nretries -= 1, rmtree, and the except clause
RmAttempt ==
    /\ pc = "rm_try"
    /\ nretries' = nretries - 1
    /\ \E o \in RmOutcomes(rmpath) :
         /\ FsAfter(o)
         /\ lastrm' = rmpath
         /\ outcomes' = Append(outcomes, ~o.raised)
         /\ IF ~o.raised
            THEN /\ rmres' = "returned"
                 /\ pc' = RmReturn
                 /\ UNCHANGED gaveup
            ELSE IF GiveUp(nretries')
            THEN /\ gaveup' = TRUE
                 /\ rmres' = "returned"
                 /\ pc' = RmReturn
            ELSE /\ pc' = "rm_sleep"
                 /\ UNCHANGED <<gaveup, rmres>>
    /\ UNCHANGED <<cfgvars, basetmpdir, tmpdir, st, i, ok, rmpath, rmfrom, exc_val, raised,
                   ret, handed, rmDirs, enterDirs, enterLocked, enterTmp,
                   primRemoved, ncalls, nops>>

\* time.sleep(1.): meanwhile the external process may let go of the tree
RmSleep ==
    /\ pc = "rm_sleep"
    /\ pc' = "rm_try"
    /\ \E release \in BOOLEAN :
         locked' = IF release THEN locked \ Subtree(rmpath, dirs) ELSE locked
    /\ UNCHANGED <<cfgvars, basetmpdir, tmpdir, dirs, full, st, i, ok, nretries, rmpath,
                   rmfrom, exc_val, raised, ret, handed, lastrm, outcomes, gaveup,
                   rmres, rmDirs, enterDirs, enterLocked, enterTmp, primRemoved,
                   ncalls, nops>>

-----------------------------------------------------------------------------
(* TmpPath.__exit__, after rm_tmp_tree has returned *)

Propagated_Swallow(ev) == "none"

\* if exc_val is not None: raise exc_val
Propagated(ev) == ev

ExitRaise_ResetPath ==
    /\ pc = "exit_raise"
    /\ raised' = Propagated(exc_val)
    /\ st' = "Released"
    /\ pc' = "idle"
    /\ tmpdir' = Primary(basetmpdir)
    /\ FsUnchanged
    /\ UNCHANGED <<cfgvars, basetmpdir, i, ok, nretries, rmpath, rmfrom, exc_val,
                   ret, handed, lastrm, outcomes, gaveup, rmres, rmDirs,
                   enterDirs, enterLocked, enterTmp, primRemoved, ncalls, nops>>

\* the end of __exit__
ExitRaise ==
    /\ pc = "exit_raise"
    /\ raised' = Propagated(exc_val)
    /\ st' = "Released"
    /\ pc' = "idle"
    /\ FsUnchanged
    /\ UNCHANGED <<cfgvars, basetmpdir, tmpdir, i, ok, nretries, rmpath, rmfrom, exc_val,
                   ret, handed, lastrm, outcomes, gaveup, rmres, rmDirs,
                   enterDirs, enterLocked, enterTmp, primRemoved, ncalls, nops>>

-----------------------------------------------------------------------------
(* The workspace program *)

Prefixes == {"w"}

Nums == {0, 1}

DirectPaths == {OutsideDir} \cup (IF ret = NoPath THEN {} ELSE {ret})

Failures == {"none", "E"}

\* no configuration is being resolved
NotCalled == [kind |-> "none", path |-> NoPath, named |-> <<>>]

\* a generator object: the position of its loop, what it has yielded, how it ended
NewGenerator == [pos |-> 1, yielded |-> <<>>, err |-> "none"]

\* before Folders.__init__
NoFolders ==
    [state |-> "new", err |-> "none", named |-> <<>>, at |-> "none",
     config_dir |-> NoPath, mo2_dir |-> NoPath, download_dirs |-> <<>>,
     ignore_dirs |-> <<>>, cache_dir |-> NoPath, tmp_dir |-> NoPath,
     github_dir |-> NoPath, own_mod_names |-> <<>>]

\* before any normalize_dir_path / normalize_file_path call on the path p
NoNorm(p) ==
    [path |-> p, dir_once |-> NotCalled, dir_twice |-> NotCalled,
     file_once |-> NotCalled, file_twice |-> NotCalled]

CfgIdle ==
    /\ arg_path = NoPath
    /\ configdir = NoPath
    /\ config = <<>>
    /\ resolved = NotCalled
    /\ jsonconfigfname = NoPath
    /\ jsonconfig = <<>>
    /\ folders = NoFolders
    /\ mo2gen = NewGenerator
    /\ gitgen = NewGenerator
    /\ norm = NoNorm(NoPath)

\* acquisition and release over every stale state, with a body that only works
Init == TmpInit(StaleStates(Primary(basetmpdir))) /\ CfgIdle

Next ==
    \/ Construct
    \/ EnterStart
    \/ ReserveStep
    \/ AbortIfNotOk
    \/ MakeDirs
    \/ BodyWork
    \/ \E e \in Failures : Exit(e)
    \/ RmEntry
    \/ RmAttempt
    \/ RmSleep
    \/ ExitRaise

Spec == Init /\ [][Next]_vars

\* the same with a body that also calls tmp_dir, tmp_in_tmp and rm_tmp_tree
InitUse == TmpInit(UseStaleStates(Primary(basetmpdir))) /\ CfgIdle

NextUse ==
    \/ Next
    \/ TmpDir
    \/ \E tmpbase \in TmpBases, prefix \in Prefixes, num \in Nums :
         TmpInTmp(tmpbase, prefix, num)
    \/ \E path \in DirectPaths : RmDirect(path)
    \/ BodyRaise

SpecUse == InitUse /\ [][NextUse]_vars

-----------------------------------------------------------------------------
(* Claims about TmpPath *)

Last(s) == s[Len(s)]

\* C1: every path handed to shutil.rmtree contains the marker segment
\* '\JBSLtet9\'; rm_tmp_tree is never inside its retry loop on a path without
\* it; a call of rm_tmp_tree on a path without the marker ends with an
\* AssertionError before any removal attempt and leaves the file system as it
\* was; no directory outside the marker is ever removed.
C1_MarkerSafety ==
    /\ lastrm # NoPath => HasMarker(lastrm)
    /\ pc \in {"rm_try", "rm_sleep"} => HasMarker(rmpath)
    /\ (rmres \in {"returned", "AssertionError"} /\ ~HasMarker(rmpath)) =>
          /\ rmres = "AssertionError"
          /\ outcomes = <<>>
          /\ dirs = rmDirs
    /\ Outside \subseteq dirs

\* C1 witness: after an acquisition that fell back to a reserve slot (so that
\* stale directories were handed to rmtree), the body called rm_tmp_tree on a
\* directory outside the marker and got the AssertionError.
C1_Witness ==
    /\ rmres = "AssertionError"
    /\ rmpath = OutsideDir
    /\ lastrm # NoPath
    /\ tmpdir # Primary(basetmpdir)
    /\ OutsideDir \in dirs

\* C2: when __enter__ has just returned, the path it reports is an existing,
\* empty directory; and if nothing existed at basetmpdir + marker + '\' when it
\* started, or that directory was removed successfully, the workspace is
\* exactly that path.
C2_AcquiredEmpty ==
    (pc = "body" /\ nops = 0) =>
        /\ handed = tmpdir
        /\ handed \in dirs
        /\ handed \notin full
        /\ Subtree(handed, dirs) = {handed}
        /\ (\/ Primary(basetmpdir) \notin enterDirs
            \/ (enterTmp = Primary(basetmpdir) /\ primRemoved))
              => handed = Primary(basetmpdir)

\* C2 witness: a stale primary directory existed, was removed, and the
\* workspace was recreated empty at the same path.
C2_Witness ==
    /\ pc = "body"
    /\ nops = 0
    /\ Primary(basetmpdir) \in enterDirs
    /\ primRemoved
    /\ handed = Primary(basetmpdir)
    /\ handed \in dirs

\* the primary directory p and its MAX_RESERVE_FOLDERS reserve slots
AllStale(p) == {p} \cup {ReserveFolder(p, k) : k \in Slots}

\* the current __enter__ found the primary directory and every reserve slot
\* present and unremovable
AllUnremovable ==
    /\ ncalls >= 1
    /\ AllStale(enterTmp) \subseteq (enterDirs \cap enterLocked)

\* C3: if the primary directory and all 10 reserve slots pre-exist and none
\* can be removed, __enter__ ends in the fatal SanguinicError of abort_if_not,
\* creates no directory and hands out no workspace.
C3_FatalWhenAllStale ==
    AllUnremovable =>
        /\ st \in {"Acquiring", "FailedAcquire"}
        /\ handed = NoPath
        /\ dirs = enterDirs
        /\ st = "FailedAcquire" => (raised = "SanguinicError" /\ i = MAX_RESERVE_FOLDERS)

\* C3 witness: __enter__ ended with the fatal error after all 10 slots failed.
C3_Witness ==
    /\ AllUnremovable
    /\ st = "FailedAcquire"
    /\ raised = "SanguinicError"
    /\ i = MAX_RESERVE_FOLDERS
    /\ lastrm = ReserveFolder(enterTmp, MAX_RESERVE_FOLDERS - 1)

\* C4: rm_tmp_tree makes at most MAX_RMTREE_RETRIES = 3 removal attempts, every
\* attempt but the last one made has failed, and it returns after a success or
\* after the 3rd failure; from __exit__ of a body that ended normally nothing
\* is raised; after failures followed by a success the tree is gone; after 3
\* failures the give-up warning is logged and a directory that was there is
\* still there.
C4_ReleaseRetries ==
    /\ Len(outcomes) <= MAX_RMTREE_RETRIES
    /\ \A k \in 1..(Len(outcomes) - 1) : ~outcomes[k]
    /\ rmres = "returned" =>
          /\ outcomes # <<>>
          /\ Last(outcomes) \/ Len(outcomes) = MAX_RMTREE_RETRIES
          /\ Last(outcomes) => (rmpath \notin dirs /\ ~gaveup)
          /\ ~Last(outcomes) => (gaveup /\ (rmpath \in rmDirs => rmpath \in dirs))
    /\ (st = "Released" /\ exc_val = "none") => raised = "none"

\* C4 witness: the first 2 attempts of a release failed, the 3rd succeeded,
\* the workspace is gone and __exit__ raised nothing.
C4_Witness ==
    /\ st = "Released"
    /\ rmfrom = "exit"
    /\ outcomes = <<FALSE, FALSE, TRUE>>
    /\ tmpdir \notin dirs
    /\ raised = "none"

\* C5: when the body ended with a failure, __exit__ raises nothing before
\* rm_tmp_tree has returned (after a successful attempt or after its 3rd
\* failure), and then lets out exactly that failure.
C5_FailureReraised ==
    /\ st = "Releasing" => raised = "none"
    /\ (st = "Released" /\ exc_val # "none") =>
          /\ raised = exc_val
          /\ rmres = "returned"
          /\ outcomes # <<>>
          /\ Last(outcomes) \/ Len(outcomes) = MAX_RMTREE_RETRIES

\* C5 witness: the body failed, all 3 cleanup attempts failed, and the body's
\* failure is what __exit__ raised.
C5_Witness ==
    /\ st = "Released"
    /\ exc_val = "E"
    /\ raised = "E"
    /\ outcomes = <<FALSE, FALSE, FALSE>>
    /\ gaveup

\* the lifecycle of the specification's state machine
LifecycleEdges ==
    { <<"NoObject", "Unacquired">>,
      <<"Unacquired", "Acquiring">>,
      <<"Acquiring", "Active">>,
      <<"Acquiring", "FailedAcquire">>,
      <<"Active", "Releasing">>,
      <<"Releasing", "Released">> }

\* self.tmpdir changes only in __init__ and in the reserve loop of __enter__
PathStep ==
    tmpdir' # tmpdir => (st = "NoObject" \/ (st = "Acquiring" /\ pc = "reserve"))

-----------------------------------------------------------------------------
(* Path strings: os.path on Windows *)

\* the working directory of the process
Cwd == <<"c:", SEP, "work">>

Drives == {"c:", "C:"}

\* str.lower() on one symbol
LowerSym(s) ==
    CASE s = "C:" -> "c:"
      [] s = "M" -> "m"
      [] s = "MO2" -> "mo2"
      [] s = "Cfg" -> "cfg"
      [] s = "Games" -> "games"
      [] s = "Logs" -> "logs"
      [] s = "Root" -> "root"
      [] s = "RootBuilder" -> "rootbuilder"
      [] s = "crashDumps" -> "crashdumps"
      [] s = "ShaderCache" -> "shadercache"
      [] s = "MyPatch" -> "mypatch"
      [] s = "{A}" -> "{a}"
      [] s = "{CONFIG-DIR}" -> "{config-dir}"
      [] s = "{DEFAULT-IGNORES}" -> "{default-ignores}"
      [] OTHER -> s

\* str.lower()
Lower(p) == [k \in 1..Len(p) |-> LowerSym(p[k])]

Range(p) == {p[k] : k \in 1..Len(p)}

\* str.replace(token, val)
RECURSIVE Replace(_, _, _)
Replace(p, token, val) ==
    IF p = <<>> THEN <<>>
    ELSE (IF Head(p) = token THEN val ELSE <<Head(p)>>)
         \o Replace(Tail(p), token, val)

\* str.split('\\'): the components between the separators
RECURSIVE SplitSep(_)
SplitSep(p) ==
    IF p = <<>> THEN << <<>> >>
    ELSE LET rest == SplitSep(Tail(p))
         IN  IF Head(p) = SEP
             THEN << <<>> >> \o rest
             ELSE << <<Head(p)>> \o Head(rest) >> \o Tail(rest)

\* '\\'.join(comps)
RECURSIVE JoinSep(_)
JoinSep(comps) ==
    IF comps = <<>> THEN <<>>
    ELSE IF Len(comps) = 1 THEN Head(comps)
    ELSE Head(comps) \o <<SEP>> \o JoinSep(Tail(comps))

\* os.path.isabs: a drive followed by a separator
IsAbs(p) == Len(p) >= 2 /\ p[1] \in Drives /\ p[2] \in {SEP, "/"}

\* the loop of os.path.normpath over the components: empty and '.' components
\* are dropped, '..' removes the component before it and is dropped at the root
RECURSIVE NormComps(_, _)
NormComps(comps, acc) ==
    IF comps = <<>> THEN acc
    ELSE LET c == Head(comps)
         IN  IF c = <<>> \/ c = <<".">>
             THEN NormComps(Tail(comps), acc)
             ELSE IF c = <<"..">>
             THEN NormComps(Tail(comps),
                            IF acc = <<>> THEN acc ELSE SubSeq(acc, 1, Len(acc) - 1))
             ELSE NormComps(Tail(comps), Append(acc, c))

\* os.path.normpath of an absolute path: '/' becomes '\\', the drive and the
\* root are kept, the rest is normalised component by component
Normpath(p) ==
    LET q == Replace(p, "/", <<SEP>>)
    IN  <<q[1], SEP>> \o JoinSep(NormComps(SplitSep(SubSeq(q, 3, Len(q))), <<>>))

\* os.path.join(a, b) for a relative b
Join(a, b) == IF EndsWith(a, <<SEP>>) THEN a \o b ELSE a \o <<SEP>> \o b

\* os.path.abspath
Abspath(p) == IF IsAbs(p) THEN Normpath(p) ELSE Normpath(Join(Cwd, p))

\* os.path.split(p)[0] of a file path: what precedes the last separator
RECURSIVE SplitHead(_)
SplitHead(p) ==
    IF p = <<>> THEN <<>>
    ELSE IF p[Len(p)] = SEP
         THEN (IF Len(p) = 2 THEN p ELSE SubSeq(p, 1, Len(p) - 1))
         ELSE SplitHead(SubSeq(p, 1, Len(p) - 1))

-----------------------------------------------------------------------------
(* Normalized paths (common.py) *)

\* how a call ends: with a value, or by raising
Returned(p) == [kind |-> "ok", path |-> p, named |-> <<>>]

Raised(err, what) == [kind |-> err, path |-> NoPath, named |-> what]

\* normalize_dir_path
NormalizeDirPath(p) ==
    LET a == Abspath(p)
    IN  IF "/" \in Range(a) THEN Raised("AssertionError", <<>>)
        ELSE IF EndsWith(a, <<SEP>>) THEN Raised("AssertionError", <<>>)
        ELSE Returned(Lower(a) \o <<SEP>>)

\* is_normalized_dir_path
IsNormalizedDirPath(p) == p = Lower(Abspath(p)) \o <<SEP>>

\* normalize_file_name
NormalizeFileName(fname) ==
    IF SEP \in Range(fname) \/ "/" \in Range(fname)
    THEN Raised("AssertionError", <<>>)
    ELSE Returned(Lower(fname))

-----------------------------------------------------------------------------
(* Configuration values (the parsed JSON) *)

\* a configuration is the sequence of its items, in the order of the file
Str(v) == [t |-> "str", s |-> v, l |-> <<>>]

List(vs) == [t |-> "list", s |-> <<>>, l |-> vs]

Number == [t |-> "int", s |-> <<>>, l |-> <<>>]

Item(k, v) == [key |-> k, val |-> v]

\* key in config
HasKey(cfg, k) == \E n \in 1..Len(cfg) : cfg[n].key = k

\* config[key]
Get(cfg, k) == cfg[CHOOSE n \in 1..Len(cfg) : cfg[n].key = k].val

\* '{' + key + '}'
Placeholder(k) == "{" \o k \o "}"

-----------------------------------------------------------------------------
(* folders.py: _config_dir_path *)

\* the depth at which the interpreter stops a recursion (RecursionError)
RecursionLimit == 6

\* _normalize_config_dir_path
NormalizeConfigDirPath(p, cdir) ==
    IF IsAbs(p) THEN NormalizeDirPath(p) ELSE NormalizeDirPath(cdir \o p)

\* the loop over config.items(): the path after it, and whether it replaced
RECURSIVE ItemsLoop(_, _, _)
ItemsLoop(items, p, replaced) ==
    IF items = <<>> THEN [path |-> p, replaced |-> replaced]
    ELSE LET it == Head(items)
             newpath == IF it.val.t = "str"
                        THEN Replace(p, Placeholder(it.key), it.val.s)
                        ELSE p
         IN  ItemsLoop(Tail(items), newpath, replaced \/ newpath # p)

\* _config_dir_path, called at recursion depth 'depth'
RECURSIVE ConfigDirPath(_, _, _, _)
ConfigDirPath(p, cdir, cfg, depth) ==
    LET n == NormalizeConfigDirPath(p, cdir)
    IN  IF n.kind # "ok" THEN n
        ELSE LET p1 == Replace(n.path, "{CONFIG-DIR}", cdir)
                 lp == ItemsLoop(cfg, p1, FALSE)
             IN  IF lp.replaced
                 THEN IF depth >= RecursionLimit
                      THEN Raised("RecursionError", <<>>)
                      ELSE ConfigDirPath(lp.path, cdir, cfg, depth + 1)
                 ELSE Returned(lp.path)

\* the call _config_dir_path(path, configdir, config)
Resolve ==
    /\ resolved = NotCalled
    /\ resolved' = ConfigDirPath(arg_path, configdir, config, 0)
    /\ UNCHANGED <<tmpvars, arg_path, configdir, config, jsonconfigfname,
                   jsonconfig, folders, mo2gen, gitgen, norm>>

\* the tmp directory is not in use
TmpIdle ==
    /\ basetmpdir = NoPath
    /\ dirs = {}
    /\ locked = {}
    /\ full = {}
    /\ tmpdir = NoPath
    /\ st = "NoObject"
    /\ pc = "new"
    /\ i = 0
    /\ ok = FALSE
    /\ nretries = 0
    /\ rmpath = NoPath
    /\ rmfrom = "none"
    /\ exc_val = "none"
    /\ raised = "none"
    /\ ret = NoPath
    /\ handed = NoPath
    /\ lastrm = NoPath
    /\ outcomes = <<>>
    /\ gaveup = FALSE
    /\ rmres = "none"
    /\ rmDirs = {}
    /\ enterDirs = {}
    /\ enterLocked = {}
    /\ enterTmp = NoPath
    /\ primRemoved = FALSE
    /\ ncalls = 0
    /\ nops = 0

\* the keys of the configurations resolved, in file order
ResolveKeys == <<"mo2", "x", "a", "b">>

\* the values a key can have; NoPath stands for a key that is absent
ResolveValues ==
    { NoPath,
      <<"M", SEP>>,
      <<"{mo2}", "sub", SEP>>,
      <<"{a}">>,
      <<"{b}">>,
      <<"{A}">>,
      <<"x">>,
      <<"{b}", "x">> }

\* the configuration that gives ResolveKeys[n] the value f[n]
RECURSIVE MkConfig(_, _, _)
MkConfig(keys, f, n) ==
    IF n > Len(keys) THEN <<>>
    ELSE (IF f[n] = NoPath THEN <<>> ELSE <<Item(keys[n], Str(f[n]))>>)
         \o MkConfig(keys, f, n + 1)

ResolveConfigs ==
    { MkConfig(ResolveKeys, f, 1) : f \in [1..Len(ResolveKeys) -> ResolveValues] }

\* the path values resolved
ResolvePaths ==
    { <<"{mo2}", "sub", SEP>>,
      <<"{x}">>,
      <<"{a}">>,
      <<"{CONFIG-DIR}", "x">>,
      <<"C:", SEP, "{b}", "x", "/">>,
      <<"C:", SEP>> }

ConfigDirs == { <<"c:", SEP, "cfg", SEP>> }

InitResolve ==
    /\ TmpIdle
    /\ arg_path \in ResolvePaths
    /\ configdir \in ConfigDirs
    /\ config \in ResolveConfigs
    /\ resolved = NotCalled
    /\ jsonconfigfname = NoPath
    /\ jsonconfig = <<>>
    /\ folders = NoFolders
    /\ mo2gen = NewGenerator
    /\ gitgen = NewGenerator
    /\ norm = NoNorm(NoPath)

NextResolve == Resolve

SpecResolve == InitResolve /\ [][NextResolve]_vars

-----------------------------------------------------------------------------
(* folders.py: _normalize_mo2_dir_path, Folders.__init__ *)

\* _normalize_mo2_dir_path
NormalizeMo2DirPath(p, mo2dir) ==
    LET out == IF IsAbs(p) THEN NormalizeDirPath(p) ELSE NormalizeDirPath(mo2dir \o p)
    IN  IF out.kind # "ok" THEN out
        ELSE IF ~StartsWith(out.path, mo2dir) THEN Raised("SanguinicError", p)
        ELSE out

DEFAULT_IGNORES == <<"{DEFAULT-IGNORES}">>

\* the built-in list that '{DEFAULT-IGNORES}' stands for
DefaultIgnores ==
    << <<"plugins", SEP, "data", SEP, "RootBuilder">>,
       <<"crashDumps">>,
       <<"logs">>,
       <<"webcache">>,
       <<"overwrite", SEP, "Root", SEP, "Logs">>,
       <<"overwrite", SEP, "ShaderCache">> >>

\* what a loop over a list leaves: the paths made, or the failure that ended it
Made(ps) == [kind |-> "ok", named |-> <<>>, paths |-> ps]

Stopped(r, ps) == [kind |-> r.kind, named |-> r.named, paths |-> ps]

\* [_config_dir_path(dl, self.config_dir, jsonconfig) for dl in dls]
RECURSIVE ResolveAll(_, _, _, _)
ResolveAll(ps, cdir, cfg, acc) ==
    IF ps = <<>> THEN Made(acc)
    ELSE LET r == ConfigDirPath(Head(ps), cdir, cfg, 0)
         IN  IF r.kind # "ok" THEN Stopped(r, acc)
             ELSE ResolveAll(Tail(ps), cdir, cfg, Append(acc, r.path))

\* [normalize_dir_path(self.mo2_dir + defignore) for defignore in [...]]
RECURSIVE NormalizeAll(_, _, _)
NormalizeAll(ps, mo2dir, acc) ==
    IF ps = <<>> THEN Made(acc)
    ELSE LET r == NormalizeDirPath(mo2dir \o Head(ps))
         IN  IF r.kind # "ok" THEN Stopped(r, acc)
             ELSE NormalizeAll(Tail(ps), mo2dir, Append(acc, r.path))

\* for ignore in ignores: ...
RECURSIVE IgnoresLoop(_, _, _)
IgnoresLoop(ignores, mo2dir, acc) ==
    IF ignores = <<>> THEN Made(acc)
    ELSE IF Head(ignores) = DEFAULT_IGNORES
    THEN LET r == NormalizeAll(DefaultIgnores, mo2dir, <<>>)
         IN  IF r.kind # "ok" THEN Stopped(r, acc)
             ELSE IgnoresLoop(Tail(ignores), mo2dir, acc \o r.paths)
    ELSE LET r == NormalizeMo2DirPath(Head(ignores), mo2dir)
         IN  IF r.kind # "ok" THEN Stopped(r, acc)
             ELSE IgnoresLoop(Tail(ignores), mo2dir, Append(acc, r.path))

\* [normalize_file_name(om) for om in jsonconfig.get('ownmods', [])]
RECURSIVE NormalizeNames(_, _)
NormalizeNames(names, acc) ==
    IF names = <<>> THEN Made(acc)
    ELSE LET r == NormalizeFileName(Head(names))
         IN  IF r.kind # "ok" THEN Stopped(r, acc)
             ELSE NormalizeNames(Tail(names), Append(acc, r.path))

\* jsonconfig.get(key, default)
GetOr(cfg, k, default) == IF HasKey(cfg, k) THEN Get(cfg, k) ELSE default

\* __init__ ends with an exception at the assignment of field 'where'; the
\* fields assigned before it stay
Failed(f, err, what, where) ==
    [f EXCEPT !.state = "failed", !.err = err, !.named = what, !.at = where]

\* Folders.__init__, from the ignores on
FoldersInitTail(f3, jc) ==
    LET cd == f3.config_dir
        igv == GetOr(jc, "ignores", List(<<DEFAULT_IGNORES>>))
    IN  IF igv.t # "list"
        THEN Failed(f3, "SanguinicError", <<"ignores">>, "ignores")
        ELSE
    LET ir == IgnoresLoop(igv.l, f3.mo2_dir, <<>>)
        f4 == [f3 EXCEPT !.ignore_dirs = ir.paths]
    IN  IF ir.kind # "ok" THEN Failed(f4, ir.kind, ir.named, "ignores") ELSE
    LET cr == ConfigDirPath(
                 GetOr(jc, "cache", Str(cd \o <<"..", SEP, "sanguine.cache", SEP>>)).s,
                 cd, jc, 0)
    IN  IF cr.kind # "ok" THEN Failed(f4, cr.kind, cr.named, "cache") ELSE
    LET tr == ConfigDirPath(
                 GetOr(jc, "tmp", Str(cd \o <<"..", SEP, "sanguine.tmp", SEP>>)).s,
                 cd, jc, 0)
        f5 == [f4 EXCEPT !.cache_dir = cr.path]
    IN  IF tr.kind # "ok" THEN Failed(f5, tr.kind, tr.named, "tmp") ELSE
    LET gr == ConfigDirPath(GetOr(jc, "github", Str(cd)).s, cd, jc, 0)
        f6 == [f5 EXCEPT !.tmp_dir = tr.path]
    IN  IF gr.kind # "ok" THEN Failed(f6, gr.kind, gr.named, "github") ELSE
    LET nr == NormalizeNames(GetOr(jc, "ownmods", List(<<>>)).l, <<>>)
        f7 == [f6 EXCEPT !.github_dir = gr.path]
    IN  IF nr.kind # "ok" THEN Failed(f7, nr.kind, nr.named, "own_mod_names")
        ELSE [f7 EXCEPT !.own_mod_names = nr.paths, !.state = "built"]

\* Folders.__init__
FoldersInit(fname, jc) ==
    LET cdr == NormalizeDirPath(SplitHead(fname))
    IN  IF cdr.kind # "ok" THEN Failed(NoFolders, cdr.kind, cdr.named, "config_dir")
        ELSE
    LET cd == cdr.path
        f1 == [NoFolders EXCEPT !.config_dir = cd]
    IN  IF ~HasKey(jc, "mo2") THEN Failed(f1, "SanguinicError", <<"mo2">>, "mo2")
        ELSE IF Get(jc, "mo2").t # "str"
        THEN Failed(f1, "SanguinicError", <<"mo2">>, "mo2")
        ELSE
    LET md == ConfigDirPath(Get(jc, "mo2").s, cd, jc, 0)
    IN  IF md.kind # "ok" THEN Failed(f1, md.kind, md.named, "mo2") ELSE
    LET f2 == [f1 EXCEPT !.mo2_dir = md.path]
        dlv == GetOr(jc, "downloads", List(<<md.path \o <<"downloads", SEP>>>>))
        dls == IF dlv.t = "str" THEN List(<<dlv.s>>) ELSE dlv
    IN  IF dls.t # "list"
        THEN Failed(f2, "SanguinicError", <<"downloads">>, "downloads")
        ELSE
    LET dr == ResolveAll(dls.l, cd, jc, <<>>)
    IN  IF dr.kind # "ok" THEN Failed(f2, dr.kind, dr.named, "downloads")
        ELSE FoldersInitTail([f2 EXCEPT !.download_dirs = dr.paths], jc)

\* folders = Folders(jsonconfigfname, jsonconfig)
NewFolders ==
    /\ folders.state = "new"
    /\ folders' = FoldersInit(jsonconfigfname, jsonconfig)
    /\ UNCHANGED <<tmpvars, arg_path, configdir, config, resolved,
                   jsonconfigfname, jsonconfig, mo2gen, gitgen, norm>>

-----------------------------------------------------------------------------
(* folders.py: the enumerators of the owned-mod directories *)

\* out = self.mo2_dir + ownmod
Mo2OwnModDir(mo2dir, ownmod) == mo2dir \o ownmod

\* out = self.github_dir + '\\mo2\\mods' + ownmod
GitOwnModDir(githubdir, ownmod) == githubdir \o <<SEP, "mo2", SEP, "mods">> \o ownmod

\* one step of a generator: out passes its assert and is yielded, or the
\* assert fails
GenStep(gen, out) ==
    IF IsNormalizedDirPath(out)
    THEN [gen EXCEPT !.pos = @ + 1, !.yielded = Append(@, out)]
    ELSE [gen EXCEPT !.err = "AssertionError"]

\* next() on all_mo2_own_mod_dirs()
Mo2OwnModDirsNext ==
    /\ folders.state = "built"
    /\ mo2gen.err = "none"
    /\ mo2gen.pos <= Len(folders.own_mod_names)
    /\ mo2gen' = GenStep(mo2gen,
                         Mo2OwnModDir(folders.mo2_dir, folders.own_mod_names[mo2gen.pos]))
    /\ UNCHANGED <<tmpvars, arg_path, configdir, config, resolved,
                   jsonconfigfname, jsonconfig, folders, gitgen, norm>>

\* next() on all_git_own_mod_dirs()
GitOwnModDirsNext ==
    /\ folders.state = "built"
    /\ gitgen.err = "none"
    /\ gitgen.pos <= Len(folders.own_mod_names)
    /\ gitgen' = GenStep(gitgen,
                         GitOwnModDir(folders.github_dir, folders.own_mod_names[gitgen.pos]))
    /\ UNCHANGED <<tmpvars, arg_path, configdir, config, resolved,
                   jsonconfigfname, jsonconfig, folders, mo2gen, norm>>

-----------------------------------------------------------------------------
(* The configurations Folders is built from *)

Absent == [t |-> "absent", s |-> <<>>, l |-> <<>>]

ConfigFileNames == { <<"C:", SEP, "Cfg", SEP, "s.json">>, <<"s.json">> }

Mo2Choices ==
    { Absent, Number,
      Str(<<"C:", SEP, "MO2">>),
      Str(<<"C:", SEP, "Games", SEP, "MO2", SEP>>),
      Str(<<"..", SEP, "mo2">>) }

DownloadsChoices ==
    { Absent, Number, Str(<<"dl">>), List(<< <<"dl">>, <<"C:", SEP, "dl2">> >>) }

IgnoresChoices ==
    { Absent, Str(<<"logs">>),
      List(<<>>),
      List(<<DEFAULT_IGNORES>>),
      List(<< <<"Logs">> >>),
      List(<< DEFAULT_IGNORES, <<"sub", SEP, "x">> >>),
      List(<< <<"..">> >>),
      List(<< <<"..", SEP, "x">> >>),
      List(<< <<"C:", SEP, "MO2", SEP, "Logs", SEP>> >>),
      List(<< <<"C:", SEP>> >>),
      List(<< <<"..", SEP, "mo2x">> >>),
      List(<< <<"Logs">>, <<"..", SEP, "x">> >>) }

CacheChoices == { Absent, Str(<<"cache">>) }

TmpChoices == { Absent, Str(<<"{cache}", "tmp">>) }

GithubChoices == { Absent, Str(<<"C:", SEP, "git">>) }

OwnModsChoices ==
    { Absent,
      List(<< <<"MyPatch">> >>),
      List(<< <<"MyPatch">>, <<"b">> >>),
      List(<< <<>> >>),
      List(<< <<"a", SEP, "b">> >>) }

JsonKeys == <<"mo2", "downloads", "ignores", "cache", "tmp", "github", "ownmods">>

\* the configuration that gives JsonKeys[n] the value f[n]
RECURSIVE MkJson(_, _)
MkJson(f, n) ==
    IF n > Len(JsonKeys) THEN <<>>
    ELSE (IF f[n] = Absent THEN <<>> ELSE <<Item(JsonKeys[n], f[n])>>)
         \o MkJson(f, n + 1)

JsonConfigs ==
    { MkJson(<<m, d, ig, c, t, g, o>>, 1) :
        m \in Mo2Choices, d \in DownloadsChoices, ig \in IgnoresChoices,
        c \in CacheChoices, t \in TmpChoices, g \in GithubChoices,
        o \in OwnModsChoices }

InitFolders ==
    /\ TmpIdle
    /\ arg_path = NoPath
    /\ configdir = NoPath
    /\ config = <<>>
    /\ resolved = NotCalled
    /\ jsonconfigfname \in ConfigFileNames
    /\ jsonconfig \in JsonConfigs
    /\ folders = NoFolders
    /\ mo2gen = NewGenerator
    /\ gitgen = NewGenerator
    /\ norm = NoNorm(NoPath)

NextFolders ==
    \/ NewFolders
    \/ Mo2OwnModDirsNext
    \/ GitOwnModDirsNext

SpecFolders == InitFolders /\ [][NextFolders]_vars

-----------------------------------------------------------------------------
(* Claims about _config_dir_path *)

\* the string-valued keys of a configuration
StrKeys(cfg) == {cfg[n].key : n \in {m \in 1..Len(cfg) : cfg[m].val.t = "str"}}

\* the placeholder tokens of a configuration
Tokens(cfg) == {"{CONFIG-DIR}"} \cup {Placeholder(k) : k \in StrKeys(cfg)}

\* key a references key b: the value of a contains the placeholder of b
References(cfg) ==
    {ab \in StrKeys(cfg) \X StrKeys(cfg) :
        Placeholder(ab[2]) \in Range(Get(cfg, ab[1]).s)}

\* the keys reached from the keys S in at most n references
RECURSIVE Reached(_, _, _)
Reached(R, S, n) ==
    IF n = 0 THEN S
    ELSE Reached(R, S \cup {ab[2] : ab \in {r \in R : r[1] \in S}}, n - 1)

\* no key references itself, directly or through other keys
Acyclic(cfg) ==
    LET R == References(cfg)
    IN  \A k \in StrKeys(cfg) :
           k \notin Reached(R, {ab[2] : ab \in {r \in R : r[1] = k}}, Len(cfg))

\* C7: for a configuration whose tokens do not reference each other
\* cyclically, _config_dir_path does not recurse without end, and a path it
\* returns contains neither '{CONFIG-DIR}' nor '{key}' of a string-valued key.
C7_FixedPoint ==
    (resolved.kind # "none" /\ Acyclic(config)) =>
        /\ resolved.kind # "RecursionError"
        /\ resolved.kind = "ok" => Range(resolved.path) \cap Tokens(config) = {}

\* C8: also for a configuration whose tokens reference each other cyclically
\* _config_dir_path stops after a bounded number of passes: it returns, or it
\* fails with the configuration error (SanguinicError) or on an assertion of
\* normalize_dir_path, and never by exhausting the interpreter's stack.
C8_CappedResolution ==
    (resolved.kind # "none" /\ ~Acyclic(config)) =>
        resolved.kind \in {"ok", "SanguinicError", "AssertionError"}

-----------------------------------------------------------------------------
(* Claims about Folders *)

\* the directory a path names: its absolute form in lower case, ending with
\* one separator
DirOf(p) ==
    LET a == Lower(Abspath(p))
    IN  IF EndsWith(a, <<SEP>>) THEN a ELSE a \o <<SEP>>

\* the directory an 'ignores' entry names, relative entries taken from mo2_dir
IgnoredDir(entry, mo2dir) == DirOf(IF IsAbs(entry) THEN entry ELSE mo2dir \o entry)

\* the configured 'ignores'
ConfiguredIgnores == GetOr(jsonconfig, "ignores", List(<<DEFAULT_IGNORES>>))

\* the positions of the configured entries that resolve outside mo2_dir
Escaping ==
    {n \in 1..Len(ConfiguredIgnores.l) :
        /\ ConfiguredIgnores.l[n] # DEFAULT_IGNORES
        /\ ~StartsWith(IgnoredDir(ConfiguredIgnores.l[n], folders.mo2_dir), folders.mo2_dir)}

\* __init__ came to the ignores
ReachedIgnores ==
    \/ folders.state = "built"
    \/ folders.state = "failed" /\ folders.at \in {"ignores", "cache", "tmp", "github", "own_mod_names"}

\* the directories the entries name, in place
RECURSIVE IgnoredDirs(_, _)
IgnoredDirs(entries, mo2dir) ==
    IF entries = <<>> THEN <<>>
    ELSE (IF Head(entries) = DEFAULT_IGNORES
          THEN [n \in 1..Len(DefaultIgnores) |-> IgnoredDir(DefaultIgnores[n], mo2dir)]
          ELSE <<IgnoredDir(Head(entries), mo2dir)>>)
         \o IgnoredDirs(Tail(entries), mo2dir)

\* C9: in a built Folders every ignore_dirs entry is a normalized directory
\* path under mo2_dir; a configured entry that resolves outside mo2_dir makes
\* __init__ fail with the configuration error naming that entry; entries
\* inside are accepted at their place under mo2_dir.
C9_Containment ==
    /\ folders.state = "built" =>
          /\ \A n \in 1..Len(folders.ignore_dirs) :
                /\ IsNormalizedDirPath(folders.ignore_dirs[n])
                /\ StartsWith(folders.ignore_dirs[n], folders.mo2_dir)
          /\ folders.ignore_dirs = IgnoredDirs(ConfiguredIgnores.l, folders.mo2_dir)
    /\ (ReachedIgnores /\ ConfiguredIgnores.t = "list" /\ Escaping # {}) =>
          /\ folders.state = "failed"
          /\ folders.at = "ignores"
          /\ folders.err = "SanguinicError"
          /\ \E n \in Escaping :
                /\ \A k \in Escaping : n <= k
                /\ folders.named = ConfiguredIgnores.l[n]

\* the configured 'ownmods'
ConfiguredOwnMods == GetOr(jsonconfig, "ownmods", List(<<>>)).l

\* C10: own_mod_names is the configured 'ownmods' in lower case and in order,
\* and all_mo2_own_mod_dirs yields, for each name, mo2_dir + name + '\\', a
\* normalized directory path, and its assert never fails.
C10_OwnModDirs ==
    /\ folders.state = "built" =>
          folders.own_mod_names =
             [n \in 1..Len(ConfiguredOwnMods) |-> Lower(ConfiguredOwnMods[n])]
    /\ mo2gen.err = "none"
    /\ \A n \in 1..Len(mo2gen.yielded) :
          /\ mo2gen.yielded[n] = folders.mo2_dir \o folders.own_mod_names[n] \o <<SEP>>
          /\ IsNormalizedDirPath(mo2gen.yielded[n])

-----------------------------------------------------------------------------
(* common.py: normalize_dir_path and normalize_file_path applied twice *)

\* the longest path normalized
MaxPathLen == 4

\* normalize_file_path
NormalizeFilePath(p) ==
    IF EndsWith(p, <<SEP>>) \/ EndsWith(p, <<"/">>) THEN Raised("AssertionError", <<>>)
    ELSE LET a == Abspath(p)
         IN  IF "/" \in Range(a) THEN Raised("AssertionError", <<>>)
             ELSE Returned(Lower(a))

\* is_normalized_file_path
IsNormalizedFilePath(p) == p = Lower(Abspath(p))

PathSymbols == {"C:", SEP, "/", "..", "x", "M"}

\* the paths normalized: relative ones, taken from the working directory, and
\* absolute ones, which start with a drive and a separator
NormPaths ==
    {p \in UNION {[1..n -> PathSymbols] : n \in 0..MaxPathLen} :
        /\ \A k \in 2..Len(p) : p[k] \notin Drives
        /\ Len(p) >= 1 => p[1] \notin {SEP, "/"}
        /\ (Len(p) >= 1 /\ p[1] \in Drives) => IsAbs(p)}

\* once = normalize_dir_path(path)
NormalizeDirOnce ==
    /\ norm.dir_once = NotCalled
    /\ norm' = [norm EXCEPT !.dir_once = NormalizeDirPath(norm.path)]
    /\ UNCHANGED <<tmpvars, arg_path, configdir, config, resolved,
                   jsonconfigfname, jsonconfig, folders, mo2gen, gitgen>>

\* normalize_dir_path(once)
NormalizeDirTwice ==
    /\ norm.dir_once.kind = "ok"
    /\ norm.dir_twice = NotCalled
    /\ norm' = [norm EXCEPT !.dir_twice = NormalizeDirPath(norm.dir_once.path)]
    /\ UNCHANGED <<tmpvars, arg_path, configdir, config, resolved,
                   jsonconfigfname, jsonconfig, folders, mo2gen, gitgen>>

\* once = normalize_file_path(path)
NormalizeFileOnce ==
    /\ norm.file_once = NotCalled
    /\ norm' = [norm EXCEPT !.file_once = NormalizeFilePath(norm.path)]
    /\ UNCHANGED <<tmpvars, arg_path, configdir, config, resolved,
                   jsonconfigfname, jsonconfig, folders, mo2gen, gitgen>>

\* normalize_file_path(once)
NormalizeFileTwice ==
    /\ norm.file_once.kind = "ok"
    /\ norm.file_twice = NotCalled
    /\ norm' = [norm EXCEPT !.file_twice = NormalizeFilePath(norm.file_once.path)]
    /\ UNCHANGED <<tmpvars, arg_path, configdir, config, resolved,
                   jsonconfigfname, jsonconfig, folders, mo2gen, gitgen>>

InitNormalize ==
    /\ TmpIdle
    /\ arg_path = NoPath
    /\ configdir = NoPath
    /\ config = <<>>
    /\ resolved = NotCalled
    /\ jsonconfigfname = NoPath
    /\ jsonconfig = <<>>
    /\ folders = NoFolders
    /\ mo2gen = NewGenerator
    /\ gitgen = NewGenerator
    /\ norm \in {NoNorm(p) : p \in NormPaths}

NextNormalize ==
    \/ NormalizeDirOnce
    \/ NormalizeDirTwice
    \/ NormalizeFileOnce
    \/ NormalizeFileTwice

SpecNormalize == InitNormalize /\ [][NextNormalize]_vars

-----------------------------------------------------------------------------
(* Claims about normalization *)

\* C11: where normalize_dir_path succeeds, normalizing its result succeeds
\* and gives the same path; likewise for normalize_file_path; and every
\* normalized result passes is_normalized_dir_path / is_normalized_file_path.
C11_Idempotence ==
    /\ norm.dir_twice.kind # "none" => norm.dir_twice = norm.dir_once
    /\ norm.file_twice.kind # "none" => norm.file_twice = norm.file_once
    /\ norm.dir_once.kind = "ok" => IsNormalizedDirPath(norm.dir_once.path)
    /\ norm.file_once.kind = "ok" => IsNormalizedFilePath(norm.file_once.path)

-----------------------------------------------------------------------------
(* Claims about the reserve folders of TmpPath.__enter__ *)

\* slot k as the code names it: a subfolder '_k' of the workspace path the
\* acquisition started with
SubfolderSlot(k) == enterTmp \o <<"_", ToString(k), SEP>>

\* slot k named base_dir + MARKER + "_" + k + separator
SiblingSlot(k) == basetmpdir \o <<ADDED_FOLDER, "_", ToString(k), SEP>>

\* one iteration of the search, the slots being named Slot(0), Slot(1), ...:
\* it looks at slot i only, every slot below i is there (its removal failed),
\* it goes on to i + 1 only when slot i is there and its removal failed, and
\* it chooses slot i when slot i is not there or was removed; once a slot is
\* chosen nothing more is removed and the choice stays
FallbackStep(Slot(_)) ==
    /\ (st = "Acquiring" /\ pc = "reserve" /\ ~ok /\ i < MAX_RESERVE_FOLDERS) =>
          /\ \A j \in 0..(i - 1) : Slot(j) \in dirs
          /\ dirs' \subseteq dirs
          /\ dirs \ dirs' \subseteq Subtree(Slot(i), dirs)
          /\ lastrm' # lastrm => lastrm' = Slot(i)
          /\ ok' \/ i' = i + 1
          /\ i' # i =>
                /\ i' = i + 1
                /\ ~ok'
                /\ tmpdir' = tmpdir
                /\ Slot(i) \in dirs
                /\ Slot(i) \in dirs'
                /\ lastrm' = Slot(i)
          /\ ok' =>
                /\ i' = i
                /\ tmpdir' = Slot(i)
                /\ Slot(i) \notin dirs'
                /\ Slot(i) \in dirs => lastrm' = Slot(i)
                /\ Slot(i) \notin dirs => (dirs' = dirs /\ lastrm' = lastrm)
    /\ (st = "Acquiring" /\ pc = "reserve" /\ ok) =>
          /\ dirs' = dirs
          /\ tmpdir' = tmpdir
          /\ lastrm' = lastrm

\* C12 as stated: after the removal of the stale primary directory failed,
\* the slots base_dir + MARKER + "_" + i + separator are examined in
\* increasing order, the lowest one that is absent or removable is chosen,
\* every lower one exists and resisted removal, no higher one is touched.
C12_SiblingSlots == [][FallbackStep(SiblingSlot)]_vars

\* C12, amended: the same search over the subfolders path + "_" + i +
\* separator of the workspace path the acquisition started with (base_dir +
\* MARKER + separator on the first acquisition).
C12_SubfolderSlots == [][FallbackStep(SubfolderSlot)]_vars

\* C12 witness: on the first acquisition the locked primary directory and the
\* locked slot 0 resisted removal, slot 1 was removed and is the workspace.
C12_Witness ==
    /\ st = "Active"
    /\ ncalls = 1
    /\ ok
    /\ i = 1
    /\ tmpdir = Primary(basetmpdir) \o <<"_", "1", SEP>>
    /\ lastrm = tmpdir
    /\ SubfolderSlot(0) \in dirs
    /\ SubfolderSlot(1) \in enterDirs

====
